---- MODULE Spec2Model ----
(***************************************************************************)
(* A model of the HTTP MCP server of src/src/main.rs: the accept loop of   *)
(* main, one handle_client task per accepted connection, the dispatcher    *)
(* process_request and the session store behind its global mutex.          *)
(***************************************************************************)
EXTENDS Integers, Sequences, FiniteSets, TLC

(***************************************************************************)
(* Bounds of the model.                                                    *)
(***************************************************************************)
\* connection tasks that may be alive at the same time
NumTasks == 2
\* connections the accept loop takes in one run
MaxConnections == 4

Tasks == 1..NumTasks
NoTask == 0

(***************************************************************************)
(* Values the clients may send.                                            *)
(***************************************************************************)
\* the identifiers Uuid::new_v4 may return
Uuids == {"u1", "u2"}
RequestIds == {"r1", "error"}
ModelNames == {"example-model", "unknown-model", "fallible-model"}
Prompts == {"hi", "x"}
MethodNames == {"session.create", "session.generate", "session.close",
                "models.list", "session.destroy"}

\* a serde_json Value as far as the dispatcher looks at it: a field that is
\* absent, one that holds something that is not a string, or a string
Absent == [kind |-> "absent", str |-> ""]
NonString == [kind |-> "other", str |-> ""]
Str(s) == [kind |-> "string", str |-> s]
IsString(v) == v.kind = "string"

\* the characters of the first line up to its first space
PostVerb == <<"P", "O", "S", "T">>
GetVerb == <<"G", "E", "T">>
PosterVerb == <<"P", "O", "S", "T", "E", "R">>

StartsWith(s, prefix) ==
    /\ Len(s) >= Len(prefix)
    /\ SubSeq(s, 1, Len(prefix)) = prefix

NoParams == [model |-> Absent, session_id |-> Absent, prompt |-> Absent]

\* the params objects the clients send with each method
CreateParams ==
    {[NoParams EXCEPT !.model = m] :
        m \in {Absent, NonString} \cup {Str(n) : n \in ModelNames}}
SessionIdValues ==
    {Absent, NonString} \cup {Str(s) : s \in Uuids}
GenerateParams ==
    {[NoParams EXCEPT !.session_id = s, !.prompt = Str(p)] :
        s \in SessionIdValues, p \in Prompts}
    \cup {[NoParams EXCEPT !.session_id = Str(s), !.prompt = p] :
        s \in Uuids, p \in {Absent, NonString}}
    \cup {[NoParams EXCEPT !.session_id = NonString, !.prompt = NonString]}
CloseParams ==
    {[NoParams EXCEPT !.session_id = s] : s \in SessionIdValues}

ParamsOf(method) ==
    CASE method = "session.create" -> CreateParams
      [] method = "session.generate" -> GenerateParams
      [] method = "session.close" -> CloseParams
      [] OTHER -> {NoParams}

\* the JSON documents of the bodies, field by field; syntax is FALSE for a
\* body that is no JSON document at all (garbage, or a body cut short)
WellFormedBodies ==
    UNION {{[syntax |-> TRUE, id |-> Str(i), method |-> Str(m),
             has_params |-> TRUE, params |-> p] :
                i \in RequestIds, p \in ParamsOf(m)} : m \in MethodNames}
IllFormedBodies ==
    {[syntax |-> FALSE, id |-> Absent, method |-> Absent, has_params |-> FALSE,
      params |-> NoParams],
     [syntax |-> TRUE, id |-> NonString, method |-> Str("models.list"),
      has_params |-> TRUE, params |-> NoParams],
     [syntax |-> TRUE, id |-> Str("r1"), method |-> Absent,
      has_params |-> TRUE, params |-> NoParams],
     [syntax |-> TRUE, id |-> Str("r1"), method |-> Str("models.list"),
      has_params |-> FALSE, params |-> NoParams]}
Bodies == WellFormedBodies \cup IllFormedBodies
ProbeBody ==
    [syntax |-> TRUE, id |-> Str("r1"), method |-> Str("session.create"),
     has_params |-> TRUE, params |-> [NoParams EXCEPT !.model = Str("example-model")]]

\* what one read of the stream may return: the verb, whether the buffer
\* holds the empty line that ends the headers, and the body after it
RawRequests ==
    {[verb |-> PostVerb, terminator |-> TRUE, body |-> b] : b \in Bodies}
    \cup {[verb |-> v, terminator |-> t, body |-> ProbeBody] :
            v \in {GetVerb, PosterVerb}, t \in BOOLEAN}
    \cup {[verb |-> PostVerb, terminator |-> FALSE, body |-> ProbeBody]}

(***************************************************************************)
(* The types of the program.                                               *)
(***************************************************************************)
MCPRequest(id, method, params) ==
    [id |-> id, method |-> method, params |-> params]
NoRequest == MCPRequest("", "", NoParams)

NoError == [some |-> FALSE, code |-> 0, message |-> ""]
MCPError(code, message) == [some |-> TRUE, code |-> code, message |-> message]

\* a result Value: null or an object with one key
Null == [key |-> "null", str |-> "", names |-> <<>>]
SessionIdResult(sid) == [key |-> "session_id", str |-> sid, names |-> <<>>]
ResponseResult(r) == [key |-> "response", str |-> r, names |-> <<>>]
SuccessResult == [key |-> "success", str |-> "true", names |-> <<>>]
ModelsResult(names) == [key |-> "models", str |-> "", names |-> names]

MCPResponse(id, result, error) ==
    [id |-> id, result |-> result, error |-> error]

Session(model, context) == [model |-> model, context |-> context]

\* every error reported as an internal error
error_response_internal(id, code, message) ==
    MCPResponse(id, Null, MCPError(-32603, message))

\* the sentinel id in place of the id of the request
error_response_sentinel(id, code, message) ==
    MCPResponse("error", Null, MCPError(code, message))

error_response(id, code, message) ==
    MCPResponse(id, Null, MCPError(code, message))

\* MCPServer::new and register_model
MCPServerNew == [models |-> <<>>, sessions |-> <<>>]
register_model(server, name, handler) ==
    [server EXCEPT
        !.models = [n \in DOMAIN server.models \cup {name} |->
                        IF n = name THEN handler ELSE server.models[n]]]

\* a handler's result: Ok(response) or Err(message)
Ok(value) == [ok |-> TRUE, value |-> value]
Err(message) == [ok |-> FALSE, value |-> message]

example_model_handler(prompt, context) ==
    LET context_len == Len(context) \div 2
    IN Ok("Response to: " \o prompt \o ". This is turn #"
          \o ToString(context_len + 1) \o " in the conversation.")

\* a ModelHandler that may fail: the type lets a handler return Ok or Err
fallible_handler(prompt, context) ==
    {Ok("Reply to: " \o prompt), Err("handler failed")}

\* the call of a ModelHandler: the results the function pointer may return
CallHandler(handler, prompt, context) ==
    CASE handler = "example_model_handler" ->
            {example_model_handler(prompt, context)}
      [] handler = "fallible_handler" -> fallible_handler(prompt, context)
      [] OTHER -> {}

\* the registry main builds before it serves
MainServer ==
    register_model(MCPServerNew, "example-model", "example_model_handler")

\* a server whose startup registers a handler that may fail
FallibleServer ==
    register_model(MCPServerNew, "fallible-model", "fallible_handler")

(***************************************************************************)
(* What handle_client writes to the stream.                                *)
(***************************************************************************)
NoEnvelope == MCPResponse("", Null, NoError)

\* serde_json::to_string, for the strings the model sends (none of them
\* holds a character JSON escapes)
Quote(str) == "\"" \o str \o "\""

RECURSIVE JoinQuoted(_)
JoinQuoted(names) ==
    IF names = <<>> THEN ""
    ELSE IF Len(names) = 1 THEN Quote(names[1])
    ELSE Quote(names[1]) \o "," \o JoinQuoted(Tail(names))

ValueToString(value) ==
    CASE value.key = "null" -> "null"
      [] value.key = "success" -> "{\"success\":true}"
      [] value.key = "models" ->
            "{\"models\":[" \o JoinQuoted(value.names) \o "]}"
      [] OTHER -> "{" \o Quote(value.key) \o ":" \o Quote(value.str) \o "}"

ErrorToString(error) ==
    IF ~error.some THEN "null"
    ELSE "{\"code\":" \o ToString(error.code) \o ",\"message\":"
            \o Quote(error.message) \o "}"

to_string(envelope) ==
    "{\"id\":" \o Quote(envelope.id)
        \o ",\"result\":" \o ValueToString(envelope.result)
        \o ",\"error\":" \o ErrorToString(envelope.error) \o "}"

\* the responses: the status, the Content-Type and Content-Length headers
\* and the body after the empty line
HttpJson(status, envelope) ==
    LET json == to_string(envelope)
    IN [status |-> status, content_type |-> "application/json",
        content_length |-> Len(json), envelope |-> envelope, body |-> json]
HttpText(status, content_length, text) ==
    [status |-> status, content_type |-> "text/plain",
     content_length |-> content_length, envelope |-> NoEnvelope, body |-> text]
NoHttp == HttpText(0, 0, "")

OkResponse(envelope) == HttpJson(200, envelope)
ParseErrorResponse(e) ==
    HttpJson(400, MCPResponse("error", Null,
                              MCPError(-32700, "Parse error: " \o e)))
MissingBodyResponse == HttpText(400, 19, "Missing request body")
NotPostResponse == HttpText(405, 18, "Use POST requests")

\* a decoder that takes a missing params for null
Decode_lenient(body) ==
    IF body.syntax /\ body.id.kind = "string" /\ body.method.kind = "string"
        THEN [ok |-> TRUE,
              request |-> MCPRequest(body.id.str, body.method.str, body.params),
              e |-> ""]
        ELSE [ok |-> FALSE, request |-> NoRequest, e |-> "expected value"]

\* serde_json::from_str::<MCPRequest>: the envelope, or the error
Decode(body) ==
    IF ~body.syntax
        THEN [ok |-> FALSE, request |-> NoRequest, e |-> "expected value"]
    ELSE IF body.id.kind = "absent"
        THEN [ok |-> FALSE, request |-> NoRequest, e |-> "missing field id"]
    ELSE IF body.id.kind # "string"
        THEN [ok |-> FALSE, request |-> NoRequest, e |-> "invalid type"]
    ELSE IF body.method.kind = "absent"
        THEN [ok |-> FALSE, request |-> NoRequest, e |-> "missing field method"]
    ELSE IF body.method.kind # "string"
        THEN [ok |-> FALSE, request |-> NoRequest, e |-> "invalid type"]
    ELSE IF ~body.has_params
        THEN [ok |-> FALSE, request |-> NoRequest, e |-> "missing field params"]
    ELSE [ok |-> TRUE,
          request |-> MCPRequest(body.id.str, body.method.str, body.params),
          e |-> ""]

IsPost(raw) == StartsWith(raw.verb, PostVerb)
HasBody(raw) == raw.terminator
\* the reads after which handle_client calls process_request
Accepted(raw) == IsPost(raw) /\ HasBody(raw) /\ Decode(raw.body).ok

(***************************************************************************)
(* The state.                                                              *)
(***************************************************************************)
VARIABLES
    models,         \* server.models, as main cloned it before serving
    sessions,       \* the map behind Arc<Mutex<..>>: session id -> Session
    lock,           \* the task that holds the mutex guard, or NoTask
    accepted,       \* connections the accept loop has taken
    issued,         \* the identifiers Uuid::new_v4 has returned so far
    pc,             \* where each connection task is
    client_models,  \* the clone of models each task holds of models
    dispatched,     \* the tasks that have called process_request
    request,        \* the MCPRequest a task has decoded
    local,          \* the locals of process_request: model, session_id, prompt
    response,       \* the HTTP response a task is about to write
    request_data,   \* what the read of a task returned
    closed,         \* history: the ids session.close has removed
    returned,       \* history: how often create has returned each id
    turns           \* history: per session in the store, the (prompt,
                    \* response) pairs its successful generates answered

vars == <<models, sessions, lock, accepted, issued, pc, client_models,
          dispatched, request, local, response, request_data, closed,
          returned, turns>>

\* the buffer before the read
NoData == [verb |-> <<>>, terminator |-> FALSE,
           body |-> [syntax |-> FALSE, id |-> Absent, method |-> Absent,
                     has_params |-> FALSE, params |-> NoParams]]

NoLocal == [model |-> "", session_id |-> "", prompt |-> "", context |-> <<>>]

\* the state when the accept loop starts, for the server the startup built
InitOf(server) ==
    /\ models = server.models
    /\ sessions = server.sessions
    /\ lock = NoTask
    /\ accepted = 0
    /\ issued = {}
    /\ pc = [t \in Tasks |-> "idle"]
    /\ client_models = [t \in Tasks |-> <<>>]
    /\ dispatched = {}
    /\ request = [t \in Tasks |-> NoRequest]
    /\ local = [t \in Tasks |-> NoLocal]
    /\ response = [t \in Tasks |-> NoHttp]
    /\ request_data = [t \in Tasks |-> NoData]
    /\ closed = {}
    /\ returned = [u \in Uuids |-> 0]
    /\ turns = <<>>

Init == InitOf(MainServer)

InitFallible == InitOf(FallibleServer)

(***************************************************************************)
(* Helpers of the actions.                                                 *)
(***************************************************************************)
\* an identifier source that may repeat itself
new_v4_repeating == Uuids

\* Uuid::new_v4: a version 4 identifier, one that was never returned before
new_v4 == Uuids \ issued

\* a lookup that finds every key
contains_key_always(map, key) == TRUE

contains_key(map, key) == key \in DOMAIN map

\* HashMap::insert
insert(map, key, value) ==
    [k \in DOMAIN map \cup {key} |-> IF k = key THEN value ELSE map[k]]

\* a remove that leaves the entry in the map
remove_nothing(map, key) == map

\* a remove that empties the map
remove_every(map, key) == [k \in {} |-> map[k]]

\* HashMap::remove
remove(map, key) == [k \in DOMAIN map \ {key} |-> map[k]]

\* the pushes on every session of the map
push_turn_everywhere(map, key, prompt, reply) ==
    [k \in DOMAIN map |->
        Session(map[k].model, Append(Append(map[k].context, prompt), reply))]

\* the push of the response left out
push_turn_prompt_only(map, key, prompt, reply) ==
    [k \in DOMAIN map |->
        IF k = key
            THEN Session(map[k].model, Append(map[k].context, prompt))
            ELSE map[k]]

\* the pushes in the wrong order
push_turn_swapped(map, key, prompt, reply) ==
    [k \in DOMAIN map |->
        IF k = key
            THEN Session(map[k].model,
                         Append(Append(map[k].context, reply), prompt))
            ELSE map[k]]

\* the two pushes of a successful generate on the session get_mut returned
push_turn(map, key, prompt, reply) ==
    [k \in DOMAIN map |->
        IF k = key
            THEN Session(map[k].model,
                         Append(Append(map[k].context, prompt), reply))
            ELSE map[k]]

\* the models the sessions of the store use, in place of the keys
KeyOrdersInUse(map) ==
    LET used == {sessions[s].model : s \in DOMAIN sessions}
    IN {names \in [1..Cardinality(used) -> used] :
            {names[i] : i \in DOMAIN names} = used}

\* models.keys().cloned().collect(): the keys, in some order
KeyOrders(map) ==
    {names \in [1..Cardinality(DOMAIN map) -> DOMAIN map] :
        {names[i] : i \in DOMAIN names} = DOMAIN map}

\* a guard that is never dropped
guard_leaked(t) == t

\* the guard goes out of scope when process_request returns
guard_dropped(t) == NoTask

\* the prompt pushed whatever the handler returns
apply_result_keeping_prompt(map, key, prompt, result) ==
    IF result.ok
        THEN push_turn(map, key, prompt, result.value)
        ELSE [k \in DOMAIN map |->
                IF k = key
                    THEN Session(map[k].model, Append(map[k].context, prompt))
                    ELSE map[k]]

\* the match on the result of the handler: the pushes in the Ok arm only
apply_result(map, key, prompt, result) ==
    IF result.ok THEN push_turn(map, key, prompt, result.value) ELSE map

\* the guard dropped before the handler is called
GuardDroppedBeforeHandler(t) == NoTask

\* the holder of the mutex while the handler runs: the guard taken at the
\* lookup lives until process_request returns
GuardDuringHandler(t) == t

\* write_all touches nothing but the stream of its own task: a task that
\* holds a finished response writes it before any other task moves (every
\* interleaving with the steps of the other tasks reaches the same states)
NoWritePending == \A u \in Tasks : pc[u] # "write"

\* task t is at this place of its code and is the one to move
At(t, place) == pc[t] = place /\ NoWritePending

\* the task leaves process_request with its envelope and goes on to write
Respond(t, http) ==
    /\ response' = [response EXCEPT ![t] = http]
    /\ pc' = [pc EXCEPT ![t] = "write"]

Enter(t, req) ==
    /\ dispatched' = dispatched \cup {t}
    /\ request' = [request EXCEPT ![t] = req]

(***************************************************************************)
(* main: the accept loop.                                                  *)
(***************************************************************************)
Accept(t) ==
    /\ At(t, "idle")
    /\ \A u \in Tasks : u < t => pc[u] # "idle"
    /\ accepted < MaxConnections
    /\ accepted' = accepted + 1
    /\ client_models' = [client_models EXCEPT ![t] = models]
    /\ pc' = [pc EXCEPT ![t] = "read"]
    /\ UNCHANGED <<models, sessions, lock, issued, dispatched, request,
                   local, response, request_data, closed, returned, turns>>

\* the task is over: its stream and its locals are dropped
Return(t) ==
    /\ pc' = [pc EXCEPT ![t] = "idle"]
    /\ client_models' = [client_models EXCEPT ![t] = <<>>]
    /\ dispatched' = dispatched \ {t}
    /\ request' = [request EXCEPT ![t] = NoRequest]
    /\ local' = [local EXCEPT ![t] = NoLocal]
    /\ response' = [response EXCEPT ![t] = NoHttp]
    /\ request_data' = [request_data EXCEPT ![t] = NoData]

(***************************************************************************)
(* handle_client, up to the call of process_request.                       *)
(***************************************************************************)
\* the read returns Ok(0) or Err(e): nothing is written
ReadNothing(t) ==
    /\ At(t, "read")
    /\ Return(t)
    /\ UNCHANGED <<models, sessions, lock, accepted, issued, closed,
                   returned, turns>>

RejectVerb(t) ==
    /\ At(t, "read")
    /\ \E raw \in RawRequests :
        /\ request_data' = [request_data EXCEPT ![t] = raw]
        /\ ~IsPost(raw)
        /\ Respond(t, NotPostResponse)
    /\ UNCHANGED <<models, sessions, lock, accepted, issued, client_models,
                   dispatched, request, local, closed, returned, turns>>

RejectMissingBody(t) ==
    /\ At(t, "read")
    /\ \E raw \in RawRequests :
        /\ request_data' = [request_data EXCEPT ![t] = raw]
        /\ IsPost(raw)
        /\ ~HasBody(raw)
        /\ Respond(t, MissingBodyResponse)
    /\ UNCHANGED <<models, sessions, lock, accepted, issued, client_models,
                   dispatched, request, local, closed, returned, turns>>

RejectParse(t) ==
    /\ At(t, "read")
    /\ \E raw \in RawRequests :
        /\ request_data' = [request_data EXCEPT ![t] = raw]
        /\ IsPost(raw)
        /\ HasBody(raw)
        /\ ~Decode(raw.body).ok
        /\ Respond(t, ParseErrorResponse(Decode(raw.body).e))
    /\ UNCHANGED <<models, sessions, lock, accepted, issued, client_models,
                   dispatched, request, local, closed, returned, turns>>

(***************************************************************************)
(* process_request, from its call to the first lock() or to its return.    *)
(***************************************************************************)
SessionCreate(t) ==
    /\ At(t, "read")
    /\ \E raw \in RawRequests :
        /\ request_data' = [request_data EXCEPT ![t] = raw]
        /\ Accepted(raw)
        /\ LET req == Decode(raw.body).request
               model == req.params.model
           IN /\ req.method = "session.create"
              /\ Enter(t, req)
              /\ IF ~IsString(model)
                    THEN /\ Respond(t, OkResponse(error_response(req.id, -32602,
                                        "Invalid params: missing model")))
                         /\ UNCHANGED <<issued, local>>
                 ELSE IF ~contains_key(client_models[t], model.str)
                    THEN /\ Respond(t, OkResponse(error_response(req.id, -32602,
                                        "Model not found: " \o model.str)))
                         /\ UNCHANGED <<issued, local>>
                 ELSE \E session_id \in new_v4 :
                         /\ issued' = issued \cup {session_id}
                         /\ local' = [local EXCEPT ![t] =
                                [NoLocal EXCEPT !.model = model.str,
                                                !.session_id = session_id]]
                         /\ pc' = [pc EXCEPT ![t] = "create"]
                         /\ UNCHANGED response
    /\ UNCHANGED <<models, sessions, lock, accepted, client_models, closed,
                   returned, turns>>

SessionGenerate(t) ==
    /\ At(t, "read")
    /\ \E raw \in RawRequests :
        /\ request_data' = [request_data EXCEPT ![t] = raw]
        /\ Accepted(raw)
        /\ LET req == Decode(raw.body).request
               session_id == req.params.session_id
               prompt == req.params.prompt
           IN /\ req.method = "session.generate"
              /\ Enter(t, req)
              /\ IF ~IsString(session_id)
                    THEN /\ Respond(t, OkResponse(error_response(req.id, -32602,
                                        "Invalid params: missing session_id")))
                         /\ UNCHANGED local
                 ELSE IF ~IsString(prompt)
                    THEN /\ Respond(t, OkResponse(error_response(req.id, -32602,
                                        "Invalid params: missing prompt")))
                         /\ UNCHANGED local
                 ELSE /\ local' = [local EXCEPT ![t] =
                                [NoLocal EXCEPT !.session_id = session_id.str,
                                                !.prompt = prompt.str]]
                      /\ pc' = [pc EXCEPT ![t] = "generate"]
                      /\ UNCHANGED response
    /\ UNCHANGED <<models, sessions, lock, accepted, issued, client_models,
                   closed, returned, turns>>

SessionClose(t) ==
    /\ At(t, "read")
    /\ \E raw \in RawRequests :
        /\ request_data' = [request_data EXCEPT ![t] = raw]
        /\ Accepted(raw)
        /\ LET req == Decode(raw.body).request
               session_id == req.params.session_id
           IN /\ req.method = "session.close"
              /\ Enter(t, req)
              /\ IF ~IsString(session_id)
                    THEN /\ Respond(t, OkResponse(error_response(req.id, -32602,
                                        "Invalid params: missing session_id")))
                         /\ UNCHANGED local
                 ELSE /\ local' = [local EXCEPT ![t] =
                                [NoLocal EXCEPT !.session_id = session_id.str]]
                      /\ pc' = [pc EXCEPT ![t] = "close"]
                      /\ UNCHANGED response
    /\ UNCHANGED <<models, sessions, lock, accepted, issued, client_models,
                   closed, returned, turns>>

ModelsList(t) ==
    /\ At(t, "read")
    /\ \E raw \in RawRequests :
        /\ request_data' = [request_data EXCEPT ![t] = raw]
        /\ Accepted(raw)
        /\ LET req == Decode(raw.body).request
           IN /\ req.method = "models.list"
              /\ Enter(t, req)
              /\ \E model_names \in KeyOrders(client_models[t]) :
                    Respond(t, OkResponse(MCPResponse(req.id,
                                ModelsResult(model_names), NoError)))
    /\ UNCHANGED <<models, sessions, lock, accepted, issued, client_models,
                   local, closed, returned, turns>>

MethodNotFound(t) ==
    /\ At(t, "read")
    /\ \E raw \in RawRequests :
        /\ request_data' = [request_data EXCEPT ![t] = raw]
        /\ Accepted(raw)
        /\ LET req == Decode(raw.body).request
           IN /\ req.method \notin {"session.create", "session.generate",
                                    "session.close", "models.list"}
              /\ Enter(t, req)
              /\ Respond(t, OkResponse(error_response(req.id, -32601,
                                "Method not found: " \o req.method)))
    /\ UNCHANGED <<models, sessions, lock, accepted, issued, client_models,
                   local, closed, returned, turns>>

(***************************************************************************)
(* process_request, under the mutex of the session store.                  *)
(***************************************************************************)
\* lock(), insert, and the guard dropped at the return
CreateInsert(t) ==
    /\ At(t, "create")
    /\ lock = NoTask
    /\ sessions' = insert(sessions, local[t].session_id,
                          Session(local[t].model, <<>>))
    /\ Respond(t, OkResponse(MCPResponse(request[t].id,
                    SessionIdResult(local[t].session_id), NoError)))
    /\ returned' = [returned EXCEPT ![local[t].session_id] = @ + 1]
    /\ turns' = insert(turns, local[t].session_id, <<>>)
    /\ UNCHANGED <<models, lock, accepted, issued, client_models, dispatched,
                   request, local, request_data, closed>>

\* lock(), get_mut, models.get, and the call of the handler
GenerateLookup(t) ==
    /\ At(t, "generate")
    /\ lock = NoTask
    /\ LET session_id == local[t].session_id
       IN IF ~contains_key(sessions, session_id)
             THEN /\ Respond(t, OkResponse(error_response(request[t].id, -32602,
                                "Session not found: " \o session_id)))
                  /\ UNCHANGED <<lock, local>>
          ELSE IF ~contains_key(client_models[t], sessions[session_id].model)
             THEN /\ Respond(t, OkResponse(error_response(request[t].id, -32603,
                                "Internal error: model handler not found")))
                  /\ UNCHANGED <<lock, local>>
          ELSE /\ lock' = GuardDuringHandler(t)
               /\ local' = [local EXCEPT
                                ![t].model = sessions[session_id].model,
                                ![t].context = sessions[session_id].context]
               /\ pc' = [pc EXCEPT ![t] = "handler"]
               /\ UNCHANGED response
    /\ UNCHANGED <<models, sessions, accepted, issued, client_models,
                   dispatched, request, request_data, closed, returned, turns>>

\* the handler returns; the pushes on Ok; the guard dropped at the return
HandlerReturn(t) ==
    /\ At(t, "handler")
    /\ \E result \in CallHandler(client_models[t][local[t].model],
                                 local[t].prompt, local[t].context) :
        /\ sessions' = apply_result(sessions, local[t].session_id,
                                    local[t].prompt, result)
        /\ IF result.ok
            THEN /\ Respond(t, OkResponse(MCPResponse(request[t].id,
                                ResponseResult(result.value), NoError)))
                 /\ turns' = [s \in DOMAIN turns |->
                                IF s = request[t].params.session_id.str
                                    THEN Append(turns[s],
                                            <<request[t].params.prompt.str,
                                              result.value>>)
                                    ELSE turns[s]]
            ELSE /\ Respond(t, OkResponse(error_response(request[t].id, -32603,
                                "Model error: " \o result.value)))
                 /\ UNCHANGED turns
    /\ lock' = guard_dropped(t)
    /\ UNCHANGED <<models, accepted, issued, client_models, dispatched,
                   request, local, request_data, closed, returned>>

\* lock(), remove, and the guard dropped at the return
CloseRemove(t) ==
    /\ At(t, "close")
    /\ lock = NoTask
    /\ LET session_id == local[t].session_id
       IN IF ~contains_key(sessions, session_id)
             THEN /\ Respond(t, OkResponse(error_response(request[t].id, -32602,
                                "Session not found: " \o session_id)))
                  /\ UNCHANGED <<sessions, closed, turns>>
          ELSE /\ sessions' = remove(sessions, session_id)
               /\ closed' = closed \cup {session_id}
               /\ turns' = [s \in DOMAIN turns \ {session_id} |-> turns[s]]
               /\ Respond(t, OkResponse(MCPResponse(request[t].id,
                                SuccessResult, NoError)))
    /\ UNCHANGED <<models, lock, accepted, issued, client_models, dispatched,
                   request, local, request_data, returned>>

(***************************************************************************)
(* handle_client, after process_request: write_all and the end of the task.*)
(***************************************************************************)
WriteResponse(t) ==
    /\ pc[t] = "write"
    /\ Return(t)
    /\ UNCHANGED <<models, sessions, lock, accepted, issued, closed,
                   returned, turns>>

Next ==
    \E t \in Tasks :
        \/ Accept(t)
        \/ ReadNothing(t)
        \/ RejectVerb(t)
        \/ RejectMissingBody(t)
        \/ RejectParse(t)
        \/ SessionCreate(t)
        \/ SessionGenerate(t)
        \/ SessionClose(t)
        \/ ModelsList(t)
        \/ MethodNotFound(t)
        \/ CreateInsert(t)
        \/ GenerateLookup(t)
        \/ HandlerReturn(t)
        \/ CloseRemove(t)
        \/ WriteResponse(t)

Spec == Init /\ [][Next]_vars

\* the server with a handler that may fail
SpecFallible == InitFallible /\ [][Next]_vars

\* what a spawned task does once the accept loop has taken its connection
TaskStep(t) ==
    \/ ReadNothing(t)
    \/ RejectVerb(t)
    \/ RejectMissingBody(t)
    \/ RejectParse(t)
    \/ SessionCreate(t)
    \/ SessionGenerate(t)
    \/ SessionClose(t)
    \/ ModelsList(t)
    \/ MethodNotFound(t)
    \/ CreateInsert(t)
    \/ GenerateLookup(t)
    \/ HandlerReturn(t)
    \/ CloseRemove(t)
    \/ WriteResponse(t)

\* every spawned task is scheduled fairly: a task that can take a step
\* again and again, a blocked lock() included, takes it in the end
FairSpec == Spec /\ \A t \in Tasks : SF_vars(TaskStep(t))

TypeOK ==
    /\ lock \in Tasks \cup {NoTask}
    /\ accepted \in 0..MaxConnections
    /\ issued \subseteq Uuids
    /\ DOMAIN sessions \subseteq issued
    /\ closed \subseteq issued

(***************************************************************************)
(* Reading a state.                                                        *)
(***************************************************************************)
\* task t has left process_request and holds the envelope it returned
Answered(t) == pc[t] = "write" /\ t \in dispatched
Envelope(t) == response[t].envelope
Succeeded(t) == Answered(t) /\ ~Envelope(t).error.some
Failed(t, code) ==
    /\ Answered(t)
    /\ Envelope(t).error.some
    /\ Envelope(t).error.code = code
\* task t leaves process_request in this step
Answers(t) == pc[t] # "write" /\ pc'[t] = "write" /\ t \in dispatched'

RECURSIVE Flatten(_)
Flatten(pairs) ==
    IF pairs = <<>> THEN <<>>
    ELSE <<pairs[1][1], pairs[1][2]>> \o Flatten(Tail(pairs))

(***************************************************************************)
(* C1: the session ids successful session.create calls return are pairwise *)
(* distinct, whatever the interleaving of the connection tasks, and the    *)
(* insert of a create never replaces a session that is in the store.       *)
(***************************************************************************)
ReturnedOnce == \A u \in Uuids : returned[u] <= 1

CreateInsertsFresh ==
    \A t \in Tasks :
        (pc[t] = "create" /\ pc'[t] = "write")
            => ~contains_key(sessions, local[t].session_id)

C1_SessionIdsDistinct == []ReturnedOnce /\ [][CreateInsertsFresh]_vars

\* a create has returned its id while a second create, which drew its id
\* before, waits for the mutex
C1_Witness ==
    \E t, u \in Tasks :
        /\ Succeeded(t)
        /\ request[t].method = "session.create"
        /\ pc[u] = "create"
        /\ returned[Envelope(t).result.str] = 1

(***************************************************************************)
(* C2: a successful session.generate calls the handler with the context    *)
(* the session had just before the call and leaves that context followed   *)
(* by the prompt and the response it answers; two calls with P and P2 on a *)
(* fresh session leave [P, response, P2, response2].                       *)
(***************************************************************************)
GenerateAppendsPair ==
    \A t \in Tasks :
        (pc[t] = "handler" /\ pc'[t] = "write" /\ ~Envelope(t)'.error.some)
            => LET session_id == request[t].params.session_id.str
                   prompt == request[t].params.prompt.str
               IN /\ contains_key(sessions, session_id)
                  /\ contains_key(sessions', session_id)
                  /\ local[t].context = sessions[session_id].context
                  /\ Envelope(t)'.result.key = "response"
                  /\ sessions'[session_id].context =
                        sessions[session_id].context
                            \o <<prompt, Envelope(t)'.result.str>>

TwoCallsFromFresh ==
    \A s \in DOMAIN sessions :
        LET context == sessions[s].context
        IN Len(context) = 4 =>
            \E p1, p2 \in Prompts :
                LET r1 == example_model_handler(p1, <<>>).value
                    r2 == example_model_handler(p2, <<p1, r1>>).value
                IN context = <<p1, r1, p2, r2>>

C2_GenerateAppendsPromptThenResponse ==
    []TwoCallsFromFresh /\ [][GenerateAppendsPair]_vars

\* the second call on a session has been answered
C2_Witness ==
    \E t \in Tasks :
        /\ Succeeded(t)
        /\ request[t].method = "session.generate"
        /\ Len(sessions[request[t].params.session_id.str].context) = 4

(***************************************************************************)
(* C3: in every reachable state every session in the store has a context   *)
(* of even length.                                                         *)
(***************************************************************************)
C3_ContextLengthEven ==
    \A s \in DOMAIN sessions : Len(sessions[s].context) % 2 = 0

\* a generate has appended while another task is inside a generate
C3_Witness ==
    \E s \in DOMAIN sessions, t \in Tasks :
        /\ Len(sessions[s].context) >= 2
        /\ pc[t] = "handler"

(***************************************************************************)
(* C4: once session.close has succeeded for an id, every session.generate  *)
(* (with a string prompt) and every session.close that looks that id up    *)
(* afterwards is answered with the error -32602, whatever ran in between.  *)
(***************************************************************************)
AfterCloseInvalidParams ==
    \A t \in Tasks :
        (/\ pc[t] \in {"generate", "close"}
         /\ local[t].session_id \in closed
         /\ pc'[t] # pc[t])
            => /\ Answers(t)
               /\ Envelope(t)'.error.some
               /\ Envelope(t)'.error.code = -32602
               /\ Envelope(t)'.result = Null

C4_ClosedIdIsInvalidParams == [][AfterCloseInvalidParams]_vars

\* a generate on a closed id has been answered -32602
C4_Witness ==
    \E t \in Tasks :
        /\ Failed(t, -32602)
        /\ request[t].method = "session.generate"
        /\ IsString(request[t].params.prompt)
        /\ request[t].params.session_id.str \in closed

(***************************************************************************)
(* C5: the context of every session in the store is exactly the sequence   *)
(* of (prompt, response) pairs the successful generate calls on that       *)
(* session id were answered with, and nothing of the calls on another id,  *)
(* for every interleaving.                                                 *)
(***************************************************************************)
C5_ContextIsOwnTurns ==
    /\ DOMAIN turns = DOMAIN sessions
    /\ \A s \in DOMAIN sessions : sessions[s].context = Flatten(turns[s])

\* a generate on one session has appended while a generate on another
\* session, begun before, waits for the mutex
C5_Witness ==
    \E t, u \in Tasks :
        /\ Succeeded(t)
        /\ request[t].method = "session.generate"
        /\ pc[u] = "generate"
        /\ local[u].session_id # local[t].session_id
        /\ contains_key(sessions, local[u].session_id)
        /\ Len(sessions[local[t].session_id].context) = 2

(***************************************************************************)
(* C6: generate calls on the same session id are serialized: while a       *)
(* handler runs its task holds the mutex and the context it was given is   *)
(* the context of the session, and in every context each prompt is         *)
(* followed by the response the handler gives for that prompt and the      *)
(* context before it (so the second call saw the pair of the first).       *)
(***************************************************************************)
HandlerUnderLock ==
    \A t \in Tasks :
        pc[t] = "handler"
            => /\ lock = t
               /\ contains_key(sessions, local[t].session_id)
               /\ sessions[local[t].session_id].context = local[t].context

PairsInOrder ==
    \A s \in DOMAIN sessions :
        LET context == sessions[s].context
        IN \A i \in 1..Len(context) :
            i % 2 = 0 =>
                context[i] = example_model_handler(
                                context[i - 1], SubSeq(context, 1, i - 2)).value

C6_SameSessionSerialized == HandlerUnderLock /\ PairsInOrder

\* the first of two generates on one session has appended its pair while
\* the second, begun before, waits for the mutex
C6_Witness ==
    \E t, u \in Tasks :
        /\ Succeeded(t)
        /\ request[t].method = "session.generate"
        /\ pc[u] = "generate"
        /\ local[u].session_id = local[t].session_id

(***************************************************************************)
(* C7: models.list answers exactly the names main registered, in every     *)
(* state and whatever the other requests do; no request changes the        *)
(* registry.                                                               *)
(***************************************************************************)
RegisteredAtStartup == DOMAIN MainServer.models

C7_ModelsListIsRegistry ==
    /\ DOMAIN models = RegisteredAtStartup
    /\ \A t \in Tasks : pc[t] # "idle" => client_models[t] = models
    /\ \A t \in Tasks :
        (Answered(t) /\ request[t].method = "models.list")
            => /\ ~Envelope(t).error.some
               /\ Envelope(t).result.key = "models"
               /\ Len(Envelope(t).result.names) = Cardinality(RegisteredAtStartup)
               /\ {Envelope(t).result.names[i] :
                        i \in DOMAIN Envelope(t).result.names}
                    = RegisteredAtStartup

\* models.list is answered while a session exists and a handler runs
C7_Witness ==
    \E t, u \in Tasks :
        /\ Answered(t)
        /\ request[t].method = "models.list"
        /\ pc[u] = "handler"

(***************************************************************************)
(* C8: the error code follows the kind of failure: a method that is none   *)
(* of the four known ones gives -32601; a required parameter (model,       *)
(* session_id, prompt) that is missing or no string, an unknown model and  *)
(* an unknown session id give -32602; and in each of these cases the       *)
(* session store is left as it was.                                        *)
(***************************************************************************)
KnownMethods ==
    {"session.create", "session.generate", "session.close", "models.list"}

\* the request of task t fails on its method name or on its parameters
BadMethod(req) == req.method \notin KnownMethods
BadParams(req) ==
    \/ /\ req.method = "session.create"
       /\ \/ ~IsString(req.params.model)
          \/ req.params.model.str \notin RegisteredAtStartup
    \/ /\ req.method = "session.generate"
       /\ \/ ~IsString(req.params.session_id)
          \/ ~IsString(req.params.prompt)
    \/ /\ req.method = "session.close"
       /\ ~IsString(req.params.session_id)

ErrorCodeByKind ==
    \A t \in Tasks :
        /\ (t \in dispatched /\ BadMethod(request[t])) => Failed(t, -32601)
        /\ (t \in dispatched /\ BadParams(request[t])) => Failed(t, -32602)

UnknownSessionInvalidParams ==
    \A t \in Tasks :
        (/\ pc[t] \in {"generate", "close"}
         /\ ~contains_key(sessions, local[t].session_id)
         /\ pc'[t] # pc[t])
            => /\ Answers(t)
               /\ Envelope(t)'.error.some
               /\ Envelope(t)'.error.code = -32602

RejectionKeepsStore ==
    \A t \in Tasks :
        (/\ Answers(t)
         /\ Envelope(t)'.error.some
         /\ Envelope(t)'.error.code \in {-32601, -32602})
            => sessions' = sessions

C8_ErrorCodeByFailureKind ==
    /\ []ErrorCodeByKind
    /\ [][UnknownSessionInvalidParams /\ RejectionKeepsStore]_vars

\* an unknown method is answered -32601 while the store holds a session
C8_Witness ==
    \E t \in Tasks :
        /\ Failed(t, -32601)
        /\ BadMethod(request[t])
        /\ DOMAIN sessions # {}

(***************************************************************************)
(* C9: session.create stores a session only for a model name that is a key *)
(* of the registry: a create naming another model is answered -32602 and   *)
(* adds nothing; a successful create adds exactly one session, with that   *)
(* model and an empty context, and leaves every other session as it was.   *)
(***************************************************************************)
CreateOutcome ==
    \A t \in Tasks :
        (Answers(t) /\ request'[t].method = "session.create")
            => LET model == request'[t].params.model
               IN IF IsString(model) /\ contains_key(models, model.str)
                    THEN /\ ~Envelope(t)'.error.some
                         /\ Envelope(t)'.result.key = "session_id"
                         /\ ~contains_key(sessions, Envelope(t)'.result.str)
                         /\ sessions' = insert(sessions, Envelope(t)'.result.str,
                                               Session(model.str, <<>>))
                    ELSE /\ Envelope(t)'.error.some
                         /\ Envelope(t)'.error.code = -32602
                         /\ sessions' = sessions

StoreGrowsByCreateOnly ==
    \A s \in DOMAIN sessions' \ DOMAIN sessions :
        \E t \in Tasks :
            /\ Answers(t)
            /\ request'[t].method = "session.create"
            /\ Envelope(t)'.result.str = s

C9_CreateValidatesModel == [][CreateOutcome /\ StoreGrowsByCreateOnly]_vars

\* a second session has been created beside one that has a context
C9_Witness ==
    \E t \in Tasks, s \in DOMAIN sessions :
        /\ Succeeded(t)
        /\ request[t].method = "session.create"
        /\ s # Envelope(t).result.str
        /\ Len(sessions[s].context) > 0

(***************************************************************************)
(* C10: every envelope process_request returns carries the id of the       *)
(* request of its own task, on every branch and with other connections in  *)
(* flight; the envelope written for a body that did not decode carries the *)
(* id "error".                                                             *)
(***************************************************************************)
C10_EnvelopeEchoesRequestId ==
    \A t \in Tasks :
        pc[t] = "write" =>
            /\ t \in dispatched =>
                /\ response[t].status = 200
                /\ response[t].content_type = "application/json"
                /\ Envelope(t).id = request[t].id
            /\ (t \notin dispatched
                    /\ response[t].content_type = "application/json") =>
                /\ response[t].status = 400
                /\ Envelope(t).id = "error"
                /\ Envelope(t).error.some
                /\ Envelope(t).error.code = -32700

\* an error envelope echoes the id of its request while a request with
\* another id is inside process_request
C10_Witness ==
    \E t, u \in Tasks :
        /\ Answered(t)
        /\ Envelope(t).error.some
        /\ Envelope(t).id = request[t].id
        /\ u \in dispatched
        /\ pc[u] \in {"create", "generate", "handler", "close"}
        /\ request[u].id # request[t].id

(***************************************************************************)
(* C11: every connection whose request passes framing and decodes is       *)
(* written one response envelope, never none and never two, whatever the   *)
(* method and the outcome, when the handler returns and the tasks are      *)
(* scheduled fairly; no task waits forever for the lock of the store.      *)
(***************************************************************************)
WaitsForLock(t) == pc[t] \in {"create", "generate", "close"}

\* a decoded request leaves its task only through the write of the envelope
\* of that request, and the write ends the task
OneEnvelopeWritten ==
    \A t \in Tasks :
        /\ (t \in dispatched /\ t \notin dispatched') =>
                /\ pc[t] = "write"
                /\ pc'[t] = "idle"
                /\ response[t].status = 200
                /\ response[t].envelope.id = request[t].id
        /\ (t \in dispatched /\ pc[t] = "write") =>
                (t \notin dispatched' /\ pc'[t] = "idle")
        /\ (t \in dispatched /\ t \in dispatched') =>
                /\ request'[t] = request[t]
                /\ pc'[t] \notin {"idle", "read"}

EveryRequestAnswered ==
    \A t \in Tasks : (t \in dispatched) ~> (t \notin dispatched)

NoTaskWaitsForever ==
    \A t \in Tasks : WaitsForLock(t) ~> (pc[t] \in {"handler", "write"})

C11_EveryRequestAnsweredOnce ==
    /\ [][OneEnvelopeWritten]_vars
    /\ EveryRequestAnswered
    /\ NoTaskWaitsForever

\* a task is blocked in lock() while the handler of another task runs
C11_Witness ==
    \E t, u \in Tasks :
        /\ t # u
        /\ pc[u] = "handler"
        /\ lock = u
        /\ WaitsForLock(t)
        /\ t \in dispatched

(***************************************************************************)
(* C12: while the handler of a session.generate on session A has not       *)
(* returned, a session.create, session.close or session.generate of        *)
(* another task on a different session B can still run to completion.      *)
(***************************************************************************)
\* the step of task t that goes through lock()
LockStep(t) == CreateInsert(t) \/ GenerateLookup(t) \/ CloseRemove(t)

\* task t is blocked in lock() on another session than the one whose
\* handler task u is running
WaitsBesideHandler(t, u) ==
    /\ t # u
    /\ pc[u] = "handler"
    /\ WaitsForLock(t)
    /\ local[t].session_id # local[u].session_id

\* the claim as stated: the request on the other session can go on
C12_SlowHandlerBlocksOwnSessionOnly ==
    \A t, u \in Tasks : WaitsBesideHandler(t, u) => ENABLED LockStep(t)

\* what the code does: the one mutex of the store is held while the handler
\* runs, so no request of another task passes lock() before the handler
\* returns, whichever session it targets
C12_SlowHandlerBlocksEverySession ==
    \A t, u \in Tasks :
        (t # u /\ pc[u] = "handler" /\ WaitsForLock(t)) =>
            /\ lock = u
            /\ ~ENABLED LockStep(t)

\* a create and a handler of a generate on another session at the same time
C12_Witness ==
    \E t, u \in Tasks :
        /\ WaitsBesideHandler(t, u)
        /\ pc[t] = "create"
        /\ local[u].session_id \in DOMAIN sessions

(***************************************************************************)
(* C13: every response the server writes (200 JSON, 400 JSON, 400 text,    *)
(* 405 text) carries a Content-Length equal to the byte length of the body *)
(* that follows the empty line.                                            *)
(***************************************************************************)
\* the bodies are ASCII: the length of the string is its length in bytes
C13_ContentLengthIsBodyLength ==
    \A t \in Tasks :
        pc[t] = "write" =>
            response[t].content_length = Len(response[t].body)

(***************************************************************************)
(* C14: when the handler fails during session.generate the call returns an *)
(* error envelope with code -32603 whose message carries the failure       *)
(* message of the handler, and the context of the session and the rest of  *)
(* the store are what they were before the call; a context is mutated only *)
(* by a successful generate.                                               *)
(***************************************************************************)
\* the handler of task t returns in this step
HandlerReturns(t) == pc[t] = "handler" /\ pc'[t] = "write"

\* the envelope task t leaves process_request with reports a failed handler
HandlerFailed(t) ==
    /\ response'[t].envelope.error.some
    /\ response'[t].envelope.error.code = -32603
    /\ \E result \in CallHandler(client_models[t][local[t].model],
                                  local[t].prompt, local[t].context) :
            /\ ~result.ok
            /\ response'[t].envelope.error.message =
                    "Model error: " \o result.value

\* the envelope task t leaves process_request with carries a reply
HandlerSucceeded(t) ==
    /\ ~response'[t].envelope.error.some
    /\ response'[t].envelope.result.key = "response"

\* a return of the handler is a reply or the failure, and the failure
\* leaves the store alone
FailureKeepsStore ==
    \A t \in Tasks :
        HandlerReturns(t) =>
            /\ response'[t].status = 200
            /\ response'[t].envelope.id = request[t].id
            /\ \/ HandlerSucceeded(t) /\ sessions' # sessions
               \/ HandlerFailed(t) /\ sessions' = sessions

\* a context changes only in the step of a successful generate on its session
ContextMutatedBySuccessOnly ==
    \A s \in DOMAIN sessions \cap DOMAIN sessions' :
        sessions'[s].context # sessions[s].context =>
            \E t \in Tasks :
                /\ HandlerReturns(t)
                /\ HandlerSucceeded(t)
                /\ local[t].session_id = s

C14_HandlerFailureKeepsStore ==
    [][FailureKeepsStore /\ ContextMutatedBySuccessOnly]_vars

\* a handler failed on a session that holds the pair of an earlier success
C14_Witness ==
    \E t \in Tasks :
        /\ Failed(t, -32603)
        /\ Envelope(t).error.message = "Model error: handler failed"
        /\ local[t].session_id \in DOMAIN sessions
        /\ sessions[local[t].session_id].context = local[t].context
        /\ Len(local[t].context) = 2

(***************************************************************************)
(* C15: a request whose first line does not carry exactly the verb POST is *)
(* answered with the fixed plain-text 405 rejection and never reaches the  *)
(* codec or the dispatcher, so it never changes the session store; only    *)
(* requests whose verb is POST are accepted.                               *)
(***************************************************************************)
C15_OnlyPostVerbAccepted ==
    \A t \in Tasks :
        (pc[t] \notin {"idle", "read"} /\ request_data[t].verb # PostVerb) =>
            /\ t \notin dispatched
            /\ pc[t] = "write"
            /\ response[t] = NotPostResponse

(***************************************************************************)
(* C16: a framed request whose body does not decode to a complete request  *)
(* envelope (id, method and params all present and well-typed) is answered *)
(* with a rejection status and a JSON envelope with id "error", error code *)
(* -32700 and a null result; the dispatcher is not invoked and the session *)
(* store is unchanged.                                                     *)
(***************************************************************************)
\* the body is a JSON document with a string id, a string method and params
CompleteEnvelope(body) ==
    /\ body.syntax
    /\ IsString(body.id)
    /\ IsString(body.method)
    /\ body.has_params

\* what the read of task t returned passed the framing, with a body that is
\* no complete envelope
FramedIncomplete(raw) ==
    /\ StartsWith(raw.verb, PostVerb)
    /\ raw.terminator
    /\ ~CompleteEnvelope(raw.body)

ParseErrorAnswered ==
    \A t \in Tasks :
        (pc[t] \notin {"idle", "read"} /\ FramedIncomplete(request_data[t])) =>
            /\ pc[t] = "write"
            /\ t \notin dispatched
            /\ request[t] = NoRequest
            /\ response[t].status = 400
            /\ response[t].content_type = "application/json"
            /\ response[t].envelope.id = "error"
            /\ response[t].envelope.result = Null
            /\ response[t].envelope.error.some
            /\ response[t].envelope.error.code = -32700

\* the step that reads such a request leaves the store alone
ParseErrorKeepsStore ==
    \A t \in Tasks :
        (pc[t] = "read" /\ pc'[t] # "read"
            /\ FramedIncomplete(request_data'[t])) =>
                /\ sessions' = sessions
                /\ lock' = lock

C16_UndecodableBodyIsParseError ==
    []ParseErrorAnswered /\ [][ParseErrorKeepsStore]_vars

\* a body without params is rejected while the store holds a session
C16_Witness ==
    \E t \in Tasks :
        /\ pc[t] = "write"
        /\ FramedIncomplete(request_data[t])
        /\ request_data[t].body.syntax
        /\ ~request_data[t].body.has_params
        /\ response[t].envelope.error.code = -32700
        /\ sessions # <<>>

(***************************************************************************)
(* C17: a session.generate and a session.close racing on one session id    *)
(* are atomic with respect to each other: the generate runs first, it      *)
(* succeeds and its pair is appended before the session is removed, or the *)
(* close runs first, the generate returns -32602 and the handler is never  *)
(* invoked; no close falls between the lookup of the generate and its      *)
(* append.                                                                 *)
(***************************************************************************)
\* from the lookup to the append the session stays as the lookup found it
NoCloseInsideGenerate ==
    \A t \in Tasks :
        pc[t] = "handler" =>
            LET sid == local[t].session_id
            IN /\ sid \in DOMAIN sessions
               /\ sid \in DOMAIN sessions'
               /\ sessions[sid].context = local[t].context
               /\ pc'[t] = "handler" => sessions' = sessions
               /\ (pc'[t] = "write" /\ ~response'[t].envelope.error.some) =>
                    sessions'[sid].context =
                        local[t].context \o
                            <<local[t].prompt,
                              response'[t].envelope.result.str>>

\* the lookup of a generate calls the handler on a session that is there
\* and returns -32602 for one that is not
LookupAfterClose ==
    \A t \in Tasks :
        (pc[t] = "generate" /\ pc'[t] # "generate") =>
            IF local[t].session_id \in DOMAIN sessions
                THEN pc'[t] = "handler"
                ELSE /\ pc'[t] = "write"
                     /\ response'[t].envelope.error.some
                     /\ response'[t].envelope.error.code = -32602
                     /\ sessions' = sessions

C17_GenerateCloseAtomic == [][NoCloseInsideGenerate /\ LookupAfterClose]_vars

\* a close waits for the lock while the handler runs on the same session
C17_Witness ==
    \E t, u \in Tasks :
        /\ pc[t] = "handler"
        /\ pc[u] = "close"
        /\ local[u].session_id = local[t].session_id

(***************************************************************************)
(* C18: in every reachable state every session in the store names a model  *)
(* that is a key of the registry, so session.generate on an existing       *)
(* session never returns the -32603 "model handler not found" error.       *)
(***************************************************************************)
\* every task works on a clone of the registry that startup built
ClonesAreRegistry ==
    \A t \in Tasks : pc[t] # "idle" => client_models[t] = models

SessionsNameRegisteredModels ==
    \A s \in DOMAIN sessions : sessions[s].model \in DOMAIN models

HandlerNotFoundUnreachable ==
    \A t \in Tasks :
        response[t].envelope.error.message #
            "Internal error: model handler not found"

C18_SessionModelIsRegistered ==
    /\ ClonesAreRegistry
    /\ SessionsNameRegisteredModels
    /\ HandlerNotFoundUnreachable

\* a generate went past the registry lookup on a session of the store
C18_Witness ==
    \E t \in Tasks :
        /\ pc[t] = "handler"
        /\ local[t].session_id \in DOMAIN sessions
        /\ sessions[local[t].session_id].model \in DOMAIN client_models[t]
        /\ Cardinality(DOMAIN sessions) = 2

(***************************************************************************)
(* C19: a session is in the store exactly from its successful              *)
(* session.create until the first successful session.close on its own id:  *)
(* no other request and no passage of time removes it or changes its       *)
(* model, and its context only grows by appending, each later context      *)
(* having each earlier one as a prefix.                                    *)
(***************************************************************************)
IsPrefix(a, b) == Len(a) <= Len(b) /\ SubSeq(b, 1, Len(a)) = a

\* task t completes a successful close of session s in this step
ClosesSession(t, s) ==
    /\ pc[t] = "close"
    /\ local[t].session_id = s
    /\ pc'[t] = "write"
    /\ ~response'[t].envelope.error.some
    /\ response'[t].envelope.result = SuccessResult

\* task t completes a successful create of session s in this step
CreatesSession(t, s) ==
    /\ pc[t] = "create"
    /\ local[t].session_id = s
    /\ pc'[t] = "write"
    /\ response'[t].envelope.result = SessionIdResult(s)

SessionLifetime ==
    /\ \A s \in DOMAIN sessions :
            IF s \in DOMAIN sessions'
                THEN /\ sessions'[s].model = sessions[s].model
                     /\ IsPrefix(sessions[s].context, sessions'[s].context)
                     /\ \A t \in Tasks : ~ClosesSession(t, s)
                ELSE \E t \in Tasks : ClosesSession(t, s)
    /\ \A s \in Uuids \ DOMAIN sessions :
            IF s \in DOMAIN sessions'
                THEN /\ \E t \in Tasks : CreatesSession(t, s)
                     /\ sessions'[s].context = <<>>
                ELSE \A t \in Tasks : ~CreatesSession(t, s)

\* a closed session does not come back
ClosedStaysOut == \A s \in closed : s \notin DOMAIN sessions

C19_SessionLivesFromCreateToClose ==
    []ClosedStaysOut /\ [][SessionLifetime]_vars

\* a session outlives the close of another one and holds the pair of a
\* generate
C19_Witness ==
    \E s \in DOMAIN sessions :
        /\ Len(sessions[s].context) = 2
        /\ closed # {}
        /\ s \notin closed

(***************************************************************************)
(* C20: when two or more session.close requests for one existing session   *)
(* id run concurrently, exactly one of them returns success and every      *)
(* other one returns an error envelope with code -32602; a session is      *)
(* never reported closed twice.                                            *)
(***************************************************************************)
\* the close that finds the session removes it and is the first to report
\* it closed; a close that does not find it reports -32602
CloseOutcome ==
    \A t \in Tasks :
        (pc[t] = "close" /\ pc'[t] # "close") =>
            LET sid == local[t].session_id
            IN /\ pc'[t] = "write"
               /\ response'[t].envelope.id = request[t].id
               /\ IF sid \in DOMAIN sessions
                    THEN /\ response'[t].envelope.result = SuccessResult
                         /\ ~response'[t].envelope.error.some
                         /\ sid \notin closed
                         /\ closed' = closed \cup {sid}
                         /\ sid \notin DOMAIN sessions'
                    ELSE /\ response'[t].envelope.result = Null
                         /\ response'[t].envelope.error.some
                         /\ response'[t].envelope.error.code = -32602
                         /\ closed' = closed
                         /\ sessions' = sessions

\* once one close of the id has passed the lock, the closes of the same id
\* that wait behind it find nothing
LateClosesFindNothing ==
    \A u \in Tasks :
        (pc[u] = "close" /\ local[u].session_id \in closed) =>
            local[u].session_id \notin DOMAIN sessions

C20_ConcurrentClosesOneSuccess ==
    []LateClosesFindNothing /\ [][CloseOutcome]_vars

\* one of two closes of a session has succeeded, the other waits
C20_Witness ==
    \E t, u \in Tasks :
        /\ t # u
        /\ Succeeded(t)
        /\ request[t].method = "session.close"
        /\ pc[u] = "close"
        /\ local[u].session_id = local[t].session_id
        /\ local[u].session_id \in closed

====
